---- MODULE Spec2Model ----
(***************************************************************************)
(* Model of app.py: the support/resistance, trend and prediction functions *)
(* and the Streamlit button handler that parses the text area and calls    *)
(* them.                                                                   *)
(*                                                                         *)
(* Numbers.  A float is modelled as an integer count of thousandths        *)
(* (1.45 is 1450, the 10.00 alert level is 10000, the threshold slider's   *)
(* step 0.001 is 1), and NaN as a value of its own outside that range.     *)
(* Comparisons follow IEEE: every comparison with NaN is false.  Means are *)
(* kept as exact fractions (sum, count), so float rounding is not          *)
(* modelled.                                                               *)
(***************************************************************************)
EXTENDS Integers, Sequences, FiniteSets

VARIABLES
    datos_input_str,   \* the text area, as the list text.split(',') yields
    session_state,     \* st.session_state: the sidebar widgets' values
    pantalla,          \* what the last run of the script rendered
    call               \* a direct call of one of the three functions

vars == <<datos_input_str, session_state, pantalla, call>>

(***************************************************************************)
(* Bounds of the model.                                                    *)
(***************************************************************************)
MaxLen == 3          \* longest series passed to a function directly
MaxWindow == 4       \* largest window passed to a function directly
MaxSma == 3          \* largest SMA window passed to a function directly
MaxTokens == 3       \* longest text typed into the text area, in tokens
MaxWindowSize == 3   \* window slider positions 1..MaxWindowSize (and the default)

(***************************************************************************)
(* Floats.                                                                 *)
(***************************************************************************)
NaN == -1000000

IsNaN(x) == x = NaN

Lt(a, b) == ~IsNaN(a) /\ ~IsNaN(b) /\ a < b
Le(a, b) == ~IsNaN(a) /\ ~IsNaN(b) /\ a <= b
Ge(a, b) == ~IsNaN(a) /\ ~IsNaN(b) /\ a >= b

\* a + b and a - b on floats: NaN if either operand is NaN
Plus(a, b) == IF IsNaN(a) \/ IsNaN(b) THEN NaN ELSE a + b
Minus(a, b) == IF IsNaN(a) \/ IsNaN(b) THEN NaN ELSE a - b

Max2(a, b) == IF a >= b THEN a ELSE b
Min2(a, b) == IF a <= b THEN a ELSE b

\* Series.iloc[-1]
Last(s) == s[Len(s)]

(***************************************************************************)
(* pandas Series.rolling(window, min_periods=1): the window ending at      *)
(* position i holds the positions max(1, i-window+1)..i; NaN entries are   *)
(* not observations; the result is NaN when the window holds fewer than    *)
(* min_periods = 1 observations.                                           *)
(***************************************************************************)
WindowStart(i, window) == Max2(1, i - window + 1)

RECURSIVE FoldMin(_, _, _, _)
FoldMin(data, j, hi, acc) ==
    IF j > hi THEN acc
    ELSE FoldMin(data, j + 1, hi,
                 IF IsNaN(data[j]) THEN acc
                 ELSE IF IsNaN(acc) \/ data[j] < acc THEN data[j] ELSE acc)

RECURSIVE FoldMax(_, _, _, _)
FoldMax(data, j, hi, acc) ==
    IF j > hi THEN acc
    ELSE FoldMax(data, j + 1, hi,
                 IF IsNaN(data[j]) THEN acc
                 ELSE IF IsNaN(acc) \/ data[j] > acc THEN data[j] ELSE acc)

\* NaN poisons the window: the minimum of a window holding a NaN is NaN
RollingMinPropagaNaN(data, window) ==
    [i \in 1..Len(data) |->
        IF \E j \in WindowStart(i, window)..i : IsNaN(data[j]) THEN NaN
        ELSE FoldMin(data, WindowStart(i, window), i, NaN)]

\* the window ends one position early and misses the current value
RollingMinSinActual(data, window) ==
    [i \in 1..Len(data) |->
        FoldMin(data, WindowStart(i, window), Max2(1, i - 1), NaN)]

RollingMin(data, window) ==
    [i \in 1..Len(data) |-> FoldMin(data, WindowStart(i, window), i, NaN)]

RollingMax(data, window) ==
    [i \in 1..Len(data) |-> FoldMax(data, WindowStart(i, window), i, NaN)]

RECURSIVE FoldSum(_, _, _, _)
FoldSum(data, j, hi, acc) ==
    IF j > hi THEN acc
    ELSE FoldSum(data, j + 1, hi,
                 IF IsNaN(data[j]) THEN acc
                 ELSE [sum |-> acc.sum + data[j], cnt |-> acc.cnt + 1])

\* rolling(...).mean() as the exact fraction sum/cnt; cnt = 0 stands for NaN
RollingMean(data, window) ==
    [i \in 1..Len(data) |->
        FoldSum(data, WindowStart(i, window), i, [sum |-> 0, cnt |-> 0])]

\* value > mean and value < mean
GtValorMedia(v, m) == ~IsNaN(v) /\ m.cnt > 0 /\ v * m.cnt > m.sum
LtValorMedia(v, m) == ~IsNaN(v) /\ m.cnt > 0 /\ v * m.cnt < m.sum
\* mean a > mean b
GtMedias(a, b) == a.cnt > 0 /\ b.cnt > 0 /\ a.sum * b.cnt > b.sum * a.cnt

(***************************************************************************)
(* detectar_soporte_resistencia(data, window)                              *)
(***************************************************************************)
\* the clamp without its floor of 1
actual_window_sin_piso(window, n) == Min2(window, n)

actual_window(window, n) == Max2(1, Min2(window, n))

\* minimum and maximum exchanged
detectar_soporte_resistencia_invertido(data, window) ==
    IF Len(data) = 0
    THEN [soporte |-> <<>>, resistencia |-> <<>>]
    ELSE [soporte |-> RollingMax(data, actual_window(window, Len(data))),
          resistencia |-> RollingMin(data, actual_window(window, Len(data)))]

detectar_soporte_resistencia(data, window) ==
    IF Len(data) = 0
    THEN [soporte |-> <<>>, resistencia |-> <<>>]
    ELSE [soporte |-> RollingMin(data, actual_window(window, Len(data))),
          resistencia |-> RollingMax(data, actual_window(window, Len(data)))]

(***************************************************************************)
(* analizar_tendencia(data, short_sma_window, long_sma_window)             *)
(***************************************************************************)
InsuficientesDatos == "Insuficientes datos para tendencia"

\* the comparison of the two averages reversed in the first branch
clasificar_tendencia_invertida(v, s, l) ==
    IF GtValorMedia(v, s) /\ GtMedias(l, s) THEN "Alcista"
    ELSE IF LtValorMedia(v, s) /\ GtMedias(l, s) THEN "Bajista"
    ELSE "Estable"

\* lines 47-52: the classification at the final index
clasificar_tendencia(v, s, l) ==
    IF GtValorMedia(v, s) /\ GtMedias(s, l) THEN "Alcista"
    ELSE IF LtValorMedia(v, s) /\ GtMedias(l, s) THEN "Bajista"
    ELSE "Estable"

analizar_tendencia(data, short_sma_window, long_sma_window) ==
    IF Len(data) < long_sma_window
    THEN InsuficientesDatos
    ELSE clasificar_tendencia(Last(data),
                              Last(RollingMean(data, short_sma_window)),
                              Last(RollingMean(data, long_sma_window)))

(***************************************************************************)
(* get_prediction_and_alerts(data, target_value, window, umbral,           *)
(*                           short_sma_window, long_sma_window)            *)
(* Messages are modelled by their distinguishing words, the values they    *)
(* interpolate by fields.                                                  *)
(***************************************************************************)
None == "None"
EmptyDict == <<>>

Nivel2 == 2000
Nivel5 == 5000
Nivel10 == 10000

AvisoSinDatos == [kind |-> "Error: No hay datos para predecir", window |-> 0, datos |-> 0, ajustada |-> 0]
AvisoUnSoloPunto == [kind |-> "Nota: Con un solo punto de datos", window |-> 0, datos |-> 0, ajustada |-> 0]
AvisoVentanaAjustada(window, n, adjusted) ==
    [kind |-> "Nota: Se ajusto la ventana", window |-> window, datos |-> n, ajustada |-> adjusted]
AvisoSRNoCalculable == [kind |-> "Advertencia: soporte/resistencia no se pudieron calcular", window |-> 0, datos |-> 0, ajustada |-> 0]

PrediccionMayor == "PREDICCION: MAYOR (cerca del soporte)"
PrediccionMenor == "PREDICCION: MENOR (cerca de la resistencia)"
PrediccionIncierta == "PREDICCION: INCIERTA"
PrediccionNoCalculable == "Insuficientes datos o S/R no calculable"

\* the floor of 1 that the chart uses, in place of the engine's 2
adjusted_window_piso_1(window, n) ==
    IF n = 1 THEN 1 ELSE Max2(1, Min2(window, n))

\* lines 75-77
adjusted_window(window, n) ==
    IF n = 1 THEN 1 ELSE Max2(2, Min2(window, n))

\* lines 76-80
avisos_ventana(window, n) ==
    IF n = 1 THEN <<AvisoUnSoloPunto>>
    ELSE IF adjusted_window(window, n) < window
         THEN <<AvisoVentanaAjustada(window, n, adjusted_window(window, n))>>
         ELSE <<>>

\* lines 97-100
alert_10_0(actual, resistencia_actual) ==
    IF Ge(actual, Nivel10) THEN "ALERTA MAXIMA: valor actual >= 10.00"
    ELSE IF Ge(resistencia_actual, Nivel10) THEN "Advertencia Alta: resistencia >= 10.00"
    ELSE None

\* the upper bound on the value forgotten
alert_5_0_sin_tope(actual, resistencia_actual) ==
    IF Ge(actual, Nivel5) THEN "ALERTA: valor actual >= 5.00"
    ELSE IF Ge(resistencia_actual, Nivel5) /\ Lt(resistencia_actual, Nivel10)
         THEN "Advertencia: resistencia >= 5.00"
    ELSE None

\* lines 102-105
alert_5_0(actual, resistencia_actual) ==
    IF Ge(actual, Nivel5) /\ Lt(actual, Nivel10) THEN "ALERTA: valor actual >= 5.00"
    ELSE IF Ge(resistencia_actual, Nivel5) /\ Lt(resistencia_actual, Nivel10)
         THEN "Advertencia: resistencia >= 5.00"
    ELSE None

\* lines 107-110
alert_2_0(actual, resistencia_actual) ==
    IF Ge(actual, Nivel2) /\ Lt(actual, Nivel5) THEN "Alerta Importante: valor actual >= 2.00"
    ELSE IF Ge(resistencia_actual, Nivel2) /\ Lt(resistencia_actual, Nivel5)
         THEN "Nota: resistencia >= 2.00"
    ELSE None

\* lines 114-121
tendency_message(tendencia) ==
    IF tendencia = "Alcista" THEN "TENDENCIA: ALCISTA"
    ELSE IF tendencia = "Bajista" THEN "TENDENCIA: BAJISTA"
    ELSE IF tendencia = "Estable" THEN "TENDENCIA: ESTABLE"
    ELSE "TENDENCIA: Insuficientes datos para tendencia (Necesitas mas datos)"

\* the resistance test placed before the support test
prediccion_sr_resistencia_primero(actual, soporte_actual, resistencia_actual, umbral) ==
    IF Ge(actual, Minus(resistencia_actual, umbral)) THEN PrediccionMenor
    ELSE IF Le(actual, Plus(soporte_actual, umbral)) THEN PrediccionMayor
    ELSE PrediccionIncierta

\* lines 128-133
prediccion_sr(actual, soporte_actual, resistencia_actual, umbral) ==
    IF Le(actual, Plus(soporte_actual, umbral)) THEN PrediccionMayor
    ELSE IF Ge(actual, Minus(resistencia_actual, umbral)) THEN PrediccionMenor
    ELSE PrediccionIncierta

get_prediction_and_alerts(data, target_value, window, umbral, short_sma_window, long_sma_window) ==
    IF Len(data) = 0
    THEN [prediction_sr_message |-> None,
          alert_2_0_message |-> None,
          alert_5_0_message |-> None,
          alert_10_0_message |-> None,
          tendency_message |-> None,
          analysis_current |-> EmptyDict,
          warnings |-> <<AvisoSinDatos>>]
    ELSE
      LET sr == detectar_soporte_resistencia(data, adjusted_window(window, Len(data)))
          actual == Last(data)
          soporte_actual == Last(sr.soporte)
          resistencia_actual == Last(sr.resistencia)
          nocalc == IsNaN(soporte_actual) \/ IsNaN(resistencia_actual)
      IN [prediction_sr_message |->
              IF nocalc THEN PrediccionNoCalculable
              ELSE prediccion_sr(actual, soporte_actual, resistencia_actual, umbral),
          alert_2_0_message |-> alert_2_0(actual, resistencia_actual),
          alert_5_0_message |-> alert_5_0(actual, resistencia_actual),
          alert_10_0_message |-> alert_10_0(actual, resistencia_actual),
          tendency_message |->
              tendency_message(analizar_tendencia(data, short_sma_window, long_sma_window)),
          analysis_current |-> [actual |-> actual,
                                soporte |-> soporte_actual,
                                resistencia |-> resistencia_actual,
                                target |-> target_value,
                                umbral |-> umbral],
          warnings |-> avisos_ventana(window, Len(data))
                       \o (IF nocalc THEN <<AvisoSRNoCalculable>> ELSE <<>>)]

(***************************************************************************)
(* Direct calls of the three functions, with arguments from bounded sets.  *)
(***************************************************************************)
Valores == {1000, 2000, 5000, 10000, NaN}

RECURSIVE SeriesDe(_)
SeriesDe(n) ==
    IF n = 0 THEN {<<>>}
    ELSE LET prev == SeriesDe(n - 1)
         IN prev \cup {Append(s, v) : s \in {p \in prev : Len(p) = n - 1}, v \in Valores}

Series == SeriesDe(MaxLen)
Ventanas == 0..MaxWindow
VentanasSma == 1..MaxSma
Umbrales == {0, 4000}
Objetivos == {1500}

SinLlamada ==
    [fn |-> "ninguna", data |-> <<>>, window |-> 0, umbral |-> 0, target |-> 0,
     short |-> 0, long |-> 0,
     sr |-> [soporte |-> <<>>, resistencia |-> <<>>],
     tendencia |-> None,
     results |-> get_prediction_and_alerts(<<>>, 0, 0, 0, 1, 1)]

LlamarDetectar ==
    /\ call.fn = "ninguna"
    /\ \E data \in Series, window \in Ventanas :
          call' = [SinLlamada EXCEPT !.fn = "detectar_soporte_resistencia",
                                     !.data = data, !.window = window,
                                     !.sr = detectar_soporte_resistencia(data, window)]
    /\ UNCHANGED <<datos_input_str, session_state, pantalla>>

LlamarAnalizar ==
    /\ call.fn = "ninguna"
    /\ \E data \in Series, short \in VentanasSma, long \in VentanasSma :
          call' = [SinLlamada EXCEPT !.fn = "analizar_tendencia",
                                     !.data = data, !.short = short, !.long = long,
                                     !.tendencia = analizar_tendencia(data, short, long)]
    /\ UNCHANGED <<datos_input_str, session_state, pantalla>>

LlamarPrediccion ==
    /\ call.fn = "ninguna"
    /\ \E data \in Series, target \in Objetivos, window \in Ventanas,
          umbral \in Umbrales, short \in VentanasSma, long \in VentanasSma :
          call' = [SinLlamada EXCEPT !.fn = "get_prediction_and_alerts",
                                     !.data = data, !.window = window,
                                     !.umbral = umbral, !.target = target,
                                     !.short = short, !.long = long,
                                     !.results = get_prediction_and_alerts(
                                         data, target, window, umbral, short, long)]
    /\ UNCHANGED <<datos_input_str, session_state, pantalla>>

Retornar ==
    /\ call.fn # "ninguna"
    /\ call' = SinLlamada
    /\ UNCHANGED <<datos_input_str, session_state, pantalla>>

(***************************************************************************)
(* The text area.  datos_input_str is kept as the list of tokens that      *)
(* datos_input_str.split(',') yields: the empty string is the list of one  *)
(* empty token.  A token is its text without surrounding blanks (texto),   *)
(* the number that text denotes (valor), and whether blanks surround it    *)
(* (blancos).                                                              *)
(***************************************************************************)
Tok(texto, valor, blancos) == [texto |-> texto, valor |-> valor, blancos |-> blancos]

TokVacio == Tok("", 0, FALSE)
CadenaVacia == <<TokVacio>>

\* x.strip()
strip(x) == [x EXCEPT !.blancos = FALSE]

\* the truth value of a string: it is not empty
Truthy(x) == x.texto # "" \/ x.blancos

\* float(x) raises ValueError
FloatFalla(x) == x.texto \notin {"numero", "nan"}

\* float(x) where it does not raise
float(x) == IF x.texto = "nan" THEN NaN ELSE x.valor

\* value= of the text area, line 156
TextoPorDefecto ==
    <<Tok("numero", 1450, FALSE), Tok("numero", 1480, TRUE), Tok("numero", 1520, TRUE),
      Tok("numero", 1490, TRUE), Tok("numero", 1510, TRUE), Tok("numero", 1470, TRUE),
      Tok("numero", 1530, TRUE), Tok("numero", 1460, TRUE), Tok("numero", 1500, TRUE),
      Tok("numero", 1490, TRUE), Tok("numero", 1510, TRUE), Tok("numero", 1520, TRUE),
      Tok("numero", 1500, TRUE), Tok("numero", 1480, TRUE), Tok("numero", 1470, TRUE),
      Tok("numero", 1490, TRUE), Tok("numero", 1510, TRUE), Tok("numero", 1500, TRUE),
      Tok("numero", 2100, TRUE), Tok("numero", 3500, TRUE), Tok("numero", 5200, TRUE),
      Tok("numero", 9800, TRUE), Tok("numero", 10100, TRUE)>>

\* tokens a user types: nothing, a blank, a word, nan, and two numbers
TokensTecleados ==
    {TokVacio, Tok("", 0, TRUE), Tok("abc", 0, FALSE), Tok("nan", 0, TRUE),
     Tok("numero", 1500, TRUE), Tok("numero", 10000, FALSE)}

RECURSIVE SelectSeq2(_, _)
\* [x for x in s if x.strip()], line 167
SelectSeq2(s, i) ==
    IF i > Len(s) THEN <<>>
    ELSE (IF Truthy(strip(s[i])) THEN <<s[i]>> ELSE <<>>) \o SelectSeq2(s, i + 1)

\* a token that is neither blank nor a number is dropped instead of raising
HayTokenInvalidoNunca(tokens) == FALSE

\* line 167 raises ValueError: some non-blank token is not a number
HayTokenInvalido(tokens) ==
    \E i \in 1..Len(tokens) : Truthy(strip(tokens[i])) /\ FloatFalla(strip(tokens[i]))

\* line 167 where it does not raise
datos_numericos(tokens) ==
    LET keep == SelectSeq2(tokens, 1)
    IN [i \in 1..Len(keep) |-> float(strip(keep[i]))]

(***************************************************************************)
(* The sidebar widgets (lines 276-310) and st.session_state.               *)
(***************************************************************************)
WindowSizeMin == 1
WindowSizeDefault == 10
ThresholdMin == 1
ThresholdDefault == 10
ThresholdMax == 100
ShortSmaMin == 2
ShortSmaDefault == 5
LongSmaMin == 5
LongSmaDefault == 20
TargetDefault == 1500

WindowSizes == (WindowSizeMin..MaxWindowSize) \cup {WindowSizeDefault}
Thresholds == {ThresholdMin, ThresholdDefault, ThresholdMax}
ShortSmas == {ShortSmaMin, ShortSmaDefault}
LongSmas == {LongSmaMin, LongSmaDefault}

SessionDefault ==
    [target_value |-> TargetDefault, window_size |-> WindowSizeDefault,
     threshold |-> ThresholdDefault, short_sma |-> ShortSmaDefault,
     long_sma |-> LongSmaDefault]

(***************************************************************************)
(* One run of the script.  Without the button (lines 162 false) the main   *)
(* area shows the title only.  With it, lines 163-268.                     *)
(***************************************************************************)
SinResultados == get_prediction_and_alerts(<<>>, 0, 0, 0, 1, 1)
SinLineas == [soporte |-> <<>>, resistencia |-> <<>>]

Pantalla(salida, results, lineas) ==
    [salida |-> salida, results |-> results, lineas |-> lineas]

PantallaInicial == Pantalla("titulo", SinResultados, SinLineas)

\* line 236
plot_window_for_sr(window_size, n) == Max2(1, Min2(window_size, n))

\* lines 163-268
boton_prediccion(texto, ss) ==
    IF texto = CadenaVacia
    THEN Pantalla("error: ingresa los valores numericos", SinResultados, SinLineas)
    ELSE IF HayTokenInvalido(texto)
    THEN Pantalla("error: solo numeros validos separados por comas", SinResultados, SinLineas)
    ELSE IF Len(datos_numericos(texto)) = 0
    THEN Pantalla("error: no se detectaron numeros validos", SinResultados, SinLineas)
    ELSE LET data_series == datos_numericos(texto)
         IN Pantalla("analisis",
                     get_prediction_and_alerts(data_series, ss.target_value,
                                               ss.window_size, ss.threshold,
                                               ss.short_sma, ss.long_sma),
                     detectar_soporte_resistencia(
                         data_series,
                         plot_window_for_sr(ss.window_size, Len(data_series))))

(***************************************************************************)
(* The session: the user edits the text, moves a slider (each reruns the   *)
(* script without the button, which clears the main area) or presses the   *)
(* button.                                                                 *)
(***************************************************************************)
Init ==
    /\ datos_input_str = TextoPorDefecto
    /\ session_state = SessionDefault
    /\ pantalla = PantallaInicial
    /\ call = SinLlamada

BorrarTexto ==
    /\ datos_input_str' = CadenaVacia
    /\ pantalla' = PantallaInicial
    /\ UNCHANGED <<session_state, call>>

TeclearToken ==
    /\ Len(datos_input_str) < MaxTokens
    /\ \E t \in TokensTecleados :
          datos_input_str' = IF datos_input_str = CadenaVacia
                             THEN <<t>>
                             ELSE Append(datos_input_str, t)
    /\ pantalla' = PantallaInicial
    /\ UNCHANGED <<session_state, call>>

MoverWindowSize ==
    /\ \E w \in WindowSizes : session_state' = [session_state EXCEPT !.window_size = w]
    /\ pantalla' = PantallaInicial
    /\ UNCHANGED <<datos_input_str, call>>

MoverThreshold ==
    /\ \E u \in Thresholds : session_state' = [session_state EXCEPT !.threshold = u]
    /\ pantalla' = PantallaInicial
    /\ UNCHANGED <<datos_input_str, call>>

MoverShortSma ==
    /\ \E s \in ShortSmas : session_state' = [session_state EXCEPT !.short_sma = s]
    /\ pantalla' = PantallaInicial
    /\ UNCHANGED <<datos_input_str, call>>

MoverLongSma ==
    /\ \E l \in LongSmas : session_state' = [session_state EXCEPT !.long_sma = l]
    /\ pantalla' = PantallaInicial
    /\ UNCHANGED <<datos_input_str, call>>

PulsarBoton ==
    /\ pantalla' = boton_prediccion(datos_input_str, session_state)
    /\ UNCHANGED <<datos_input_str, session_state, call>>

Next ==
    \/ BorrarTexto
    \/ TeclearToken
    \/ MoverWindowSize
    \/ MoverThreshold
    \/ MoverShortSma
    \/ MoverLongSma
    \/ PulsarBoton

Spec == Init /\ [][Next]_vars

NextFn ==
    \/ LlamarDetectar
    \/ LlamarAnalizar
    \/ LlamarPrediccion
    \/ Retornar

SpecFn == Init /\ [][NextFn]_vars

(***************************************************************************)
(* Vocabulary of the properties, stated without the model's operators      *)
(* where the property is about what those compute.                         *)
(***************************************************************************)
EnPrediccion == call.fn = "get_prediction_and_alerts" /\ Len(call.data) > 0
EnDetectar == call.fn = "detectar_soporte_resistencia"
EnAnalizar == call.fn = "analizar_tendencia"

\* the positions of the trailing window of e elements ending at i
Posiciones(i, e) == {j \in 1..i : j > i - e}
\* the numbers (not NaN) of the series at those positions
Numeros(data, i, e) == {data[j] : j \in {k \in Posiciones(i, e) : data[k] # NaN}}
HayNaN(data, i, e) == \E j \in Posiciones(i, e) : data[j] = NaN

Menor(S) == CHOOSE m \in S : \A x \in S : m <= x
Mayor(S) == CHOOSE m \in S : \A x \in S : m >= x

\* minimum and maximum over the numbers of the window, NaN if it has none
MinimoSinNaN(data, i, e) ==
    IF Numeros(data, i, e) = {} THEN NaN ELSE Menor(Numeros(data, i, e))
MaximoSinNaN(data, i, e) ==
    IF Numeros(data, i, e) = {} THEN NaN ELSE Mayor(Numeros(data, i, e))

\* minimum and maximum as float operations that a NaN in the window makes NaN
MinimoFloat(data, i, e) ==
    IF HayNaN(data, i, e) THEN NaN ELSE Menor(Numeros(data, i, e))
MaximoFloat(data, i, e) ==
    IF HayNaN(data, i, e) THEN NaN ELSE Mayor(Numeros(data, i, e))

\* the S/R window of the engine for a series of n >= 1 points
VentanaMotor(w, n) ==
    IF n = 1 THEN 1
    ELSE IF w > n THEN (IF n > 2 THEN n ELSE 2)
    ELSE IF w > 2 THEN w ELSE 2

EstrictamenteCreciente(data) ==
    \A i \in 1..(Len(data) - 1) : data[i] # NaN /\ data[i + 1] # NaN /\ data[i] < data[i + 1]

SinNaN(data) == \A i \in 1..Len(data) : data[i] # NaN

(***************************************************************************)
(* C1.  For a non-empty series whose latest support and resistance are     *)
(* both defined, the prediction is "above target" exactly when             *)
(* latest <= support + threshold, otherwise "below target" exactly when    *)
(* latest >= resistance - threshold, otherwise "uncertain"; when both      *)
(* conditions hold the support test wins.                                  *)
(***************************************************************************)
C1_OrdenDePrediccion ==
    (/\ EnPrediccion
     /\ call.results.analysis_current.soporte # NaN
     /\ call.results.analysis_current.resistencia # NaN)
    => LET a == call.results.analysis_current
           v == call.data[Len(call.data)]
           cercaSoporte == v # NaN /\ v <= a.soporte + call.umbral
           cercaResistencia == v # NaN /\ v >= a.resistencia - call.umbral
           p == call.results.prediction_sr_message
       IN /\ a.actual = v
          /\ a.soporte = MinimoSinNaN(call.data, Len(call.data), VentanaMotor(call.window, Len(call.data)))
          /\ a.resistencia = MaximoSinNaN(call.data, Len(call.data), VentanaMotor(call.window, Len(call.data)))
          /\ p \in {PrediccionMayor, PrediccionMenor, PrediccionIncierta}
          /\ (p = PrediccionMayor) <=> cercaSoporte
          /\ (p = PrediccionMenor) <=> (~cercaSoporte /\ cercaResistencia)
          /\ (p = PrediccionIncierta) <=> (~cercaSoporte /\ ~cercaResistencia)

\* both conditions hold at once, with support below resistance, and the
\* prediction is "above target"
C1_Witness ==
    /\ EnPrediccion
    /\ call.results.analysis_current.soporte # NaN
    /\ call.results.analysis_current.resistencia # NaN
    /\ call.results.analysis_current.soporte < call.results.analysis_current.resistencia
    /\ Last(call.data) # NaN
    /\ Last(call.data) <= call.results.analysis_current.soporte + call.umbral
    /\ Last(call.data) >= call.results.analysis_current.resistencia - call.umbral
    /\ call.results.prediction_sr_message = PrediccionMayor

(***************************************************************************)
(* C2, as stated.  A NaN among the elements of the final rolling window    *)
(* makes the prediction the Indeterminate sentinel, with the warning.      *)
(***************************************************************************)
C2_NaNEnVentanaIndetermina ==
    (/\ EnPrediccion
     /\ HayNaN(call.data, Len(call.data), VentanaMotor(call.window, Len(call.data))))
    => /\ call.results.prediction_sr_message = PrediccionNoCalculable
       /\ \E k \in 1..Len(call.results.warnings) : call.results.warnings[k] = AvisoSRNoCalculable

(***************************************************************************)
(* C2, amended.  The prediction is the Indeterminate sentinel, with the    *)
(* warning appended, exactly when every element of the final rolling       *)
(* window is NaN; a window that holds a NaN and a number is predicted on   *)
(* the numbers.                                                            *)
(***************************************************************************)
C2_TodoNaNIndetermina ==
    EnPrediccion
    => LET todoNaN == Numeros(call.data, Len(call.data),
                              VentanaMotor(call.window, Len(call.data))) = {}
           w == call.results.warnings
       IN /\ (call.results.prediction_sr_message = PrediccionNoCalculable) <=> todoNaN
          /\ (\E k \in 1..Len(w) : w[k] = AvisoSRNoCalculable) <=> todoNaN
          /\ todoNaN => w[Len(w)] = AvisoSRNoCalculable

\* a final window of two or more elements, all NaN, after a number
C2_Witness ==
    /\ EnPrediccion
    /\ Len(call.data) >= 3
    /\ call.data[1] # NaN
    /\ VentanaMotor(call.window, Len(call.data)) = 2
    /\ Numeros(call.data, Len(call.data), 2) = {}
    /\ call.results.prediction_sr_message = PrediccionNoCalculable

(***************************************************************************)
(* C3, as stated.  A strictly increasing series of length >= long with     *)
(* 1 <= short < long is classified Alcista.                                *)
(***************************************************************************)
C3_CrecienteEsAlcistaDesde1 ==
    (/\ EnAnalizar
     /\ EstrictamenteCreciente(call.data)
     /\ Len(call.data) >= call.long
     /\ 1 <= call.short /\ call.short < call.long)
    => call.tendencia = "Alcista"

(***************************************************************************)
(* C3, amended.  A strictly increasing series of length >= long with       *)
(* 2 <= short < long is classified Alcista (with short = 1 the short       *)
(* average is the latest value itself and the result is Estable).          *)
(***************************************************************************)
C3_CrecienteEsAlcista ==
    /\ (/\ EnAnalizar
        /\ EstrictamenteCreciente(call.data)
        /\ Len(call.data) >= call.long
        /\ 2 <= call.short /\ call.short < call.long)
       => call.tendencia = "Alcista"
    /\ (/\ EnAnalizar
        /\ EstrictamenteCreciente(call.data)
        /\ Len(call.data) >= call.long
        /\ call.short = 1)
       => call.tendencia = "Estable"

\* a strictly increasing series as long as the long window, short = 2
C3_Witness ==
    /\ EnAnalizar
    /\ EstrictamenteCreciente(call.data)
    /\ Len(call.data) >= call.long
    /\ call.short = 2 /\ call.long = 3
    /\ call.tendencia = "Alcista"

(***************************************************************************)
(* C4.  If the latest value is >= 10.00, the tier-10 message is the        *)
(* maximum alert and the tier-5 and tier-2 messages are unset.             *)
(***************************************************************************)
C4_Nivel10Excluye5y2 ==
    (/\ EnPrediccion
     /\ Last(call.data) # NaN
     /\ Last(call.data) >= Nivel10)
    => /\ call.results.alert_10_0_message = "ALERTA MAXIMA: valor actual >= 10.00"
       /\ call.results.alert_5_0_message = None
       /\ call.results.alert_2_0_message = None

\* latest value >= 10 after a value of the 5 tier inside the window
C4_Witness ==
    /\ EnPrediccion
    /\ Len(call.data) >= 2
    /\ call.window >= 2
    /\ Last(call.data) = Nivel10
    /\ call.data[Len(call.data) - 1] = Nivel5
    /\ call.results.alert_10_0_message = "ALERTA MAXIMA: valor actual >= 10.00"

(***************************************************************************)
(* C5, as stated.  Support and resistance have the length of the series    *)
(* and support[i] <= resistance[i] at every index.                         *)
(***************************************************************************)
C5_SoporteBajoResistenciaSiempre ==
    (EnDetectar /\ Len(call.data) > 0)
    => /\ Len(call.sr.soporte) = Len(call.data)
       /\ Len(call.sr.resistencia) = Len(call.data)
       /\ \A i \in 1..Len(call.data) :
             /\ call.sr.soporte[i] # NaN
             /\ call.sr.resistencia[i] # NaN
             /\ call.sr.soporte[i] <= call.sr.resistencia[i]

(***************************************************************************)
(* C5, amended.  Support and resistance have the length of the series;     *)
(* at every index they are both defined or both NaN, and where they are    *)
(* defined support[i] <= resistance[i].                                    *)
(***************************************************************************)
C5_SoporteBajoResistencia ==
    (EnDetectar /\ Len(call.data) > 0)
    => /\ Len(call.sr.soporte) = Len(call.data)
       /\ Len(call.sr.resistencia) = Len(call.data)
       /\ \A i \in 1..Len(call.data) :
             /\ (call.sr.soporte[i] = NaN) <=> (call.sr.resistencia[i] = NaN)
             /\ call.sr.soporte[i] # NaN => call.sr.soporte[i] <= call.sr.resistencia[i]

\* a series with a NaN first and numbers after it, support strictly below
\* resistance at the end
C5_Witness ==
    /\ EnDetectar
    /\ Len(call.data) >= 3
    /\ call.data[1] = NaN
    /\ call.sr.soporte[1] = NaN
    /\ call.sr.soporte[Len(call.data)] # NaN
    /\ call.sr.soporte[Len(call.data)] < call.sr.resistencia[Len(call.data)]

(***************************************************************************)
(* C6, as stated.  With e = max(1, min(w, length)), support[i] and         *)
(* resistance[i] are the minimum and maximum of series[max(0,i-e+1)..i],   *)
(* taken as float minimum and maximum; the empty series gives two empty    *)
(* sequences.                                                              *)
(***************************************************************************)
C6_ExtremosDeLaVentana ==
    EnDetectar
    => LET n == Len(call.data)
           m == IF call.window < n THEN call.window ELSE n
           e == IF m > 1 THEN m ELSE 1
       IN /\ 1 <= e /\ e <= (IF n > 1 THEN n ELSE 1)
          /\ Len(call.sr.soporte) = n
          /\ Len(call.sr.resistencia) = n
          /\ \A i \in 1..n :
                /\ call.sr.soporte[i] = MinimoFloat(call.data, i, e)
                /\ call.sr.resistencia[i] = MaximoFloat(call.data, i, e)

(***************************************************************************)
(* C6, amended.  With e = max(1, min(w, length)), support[i] and           *)
(* resistance[i] are the minimum and maximum of the values other than NaN  *)
(* of series[max(0,i-e+1)..i], and NaN when that slice holds no such       *)
(* value; the empty series gives two empty sequences.                      *)
(***************************************************************************)
C6_ExtremosSinNaNDeLaVentana ==
    EnDetectar
    => LET n == Len(call.data)
           m == IF call.window < n THEN call.window ELSE n
           e == IF m > 1 THEN m ELSE 1
       IN /\ 1 <= e /\ e <= (IF n > 1 THEN n ELSE 1)
          /\ Len(call.sr.soporte) = n
          /\ Len(call.sr.resistencia) = n
          /\ \A i \in 1..n :
                /\ call.sr.soporte[i] = MinimoSinNaN(call.data, i, e)
                /\ call.sr.resistencia[i] = MaximoSinNaN(call.data, i, e)

\* a requested window of 0 on a series whose last value is not its maximum
\* nor its minimum over two positions: the floor of 1 decides the result
C6_Witness ==
    /\ EnDetectar
    /\ call.window = 0
    /\ Len(call.data) >= 2
    /\ SinNaN(call.data)
    /\ call.data[Len(call.data) - 1] # Last(call.data)
    /\ Last(call.sr.soporte) = Last(call.data)
    /\ Last(call.sr.resistencia) = Last(call.data)

(***************************************************************************)
(* C7.  A run of the button handler analyses nothing exactly when the      *)
(* text has a non-numeric token (parse error) or holds no number (no-data  *)
(* error), the two reported differently; for every other text, whatever    *)
(* the sliders and the NaN content, the result carries a prediction        *)
(* message and a trend message.                                            *)
(***************************************************************************)
TokenNoNumerico(t) == t.texto \notin {"", "numero", "nan"}
HayNoNumerico == \E i \in 1..Len(datos_input_str) : TokenNoNumerico(datos_input_str[i])
CuantosNumeros == Cardinality({i \in 1..Len(datos_input_str) :
                                  datos_input_str[i].texto \in {"numero", "nan"}})
ErrorDeFormato == "error: solo numeros validos separados por comas"
ErroresSinDatos == {"error: ingresa los valores numericos",
                    "error: no se detectaron numeros validos"}

C7_SoloDosAbortos ==
    pantalla.salida # "titulo"
    => /\ pantalla.salida \in {ErrorDeFormato, "analisis"} \cup ErroresSinDatos
       /\ (pantalla.salida = ErrorDeFormato) <=> HayNoNumerico
       /\ (pantalla.salida \in ErroresSinDatos) <=> (~HayNoNumerico /\ CuantosNumeros = 0)
       /\ (pantalla.salida = "analisis") <=> (~HayNoNumerico /\ CuantosNumeros > 0)
       /\ pantalla.salida # "analisis"
             => /\ pantalla.results.prediction_sr_message = None
                /\ pantalla.results.tendency_message = None
                /\ pantalla.results.analysis_current = EmptyDict
                /\ pantalla.lineas = SinLineas
       /\ pantalla.salida = "analisis"
             => /\ pantalla.results.prediction_sr_message # None
                /\ pantalla.results.tendency_message # None
                /\ Len(pantalla.lineas.soporte) = CuantosNumeros

\* an analysed text with blanks and a NaN as its only value, fewer points
\* than either window: everything degrades, nothing aborts
C7_Witness ==
    /\ pantalla.salida = "analisis"
    /\ \E i \in 1..Len(datos_input_str) : datos_input_str[i].texto = ""
    /\ \E i \in 1..Len(datos_input_str) : datos_input_str[i].texto = "nan"
    /\ pantalla.results.prediction_sr_message = PrediccionNoCalculable
    /\ pantalla.results.tendency_message = tendency_message(InsuficientesDatos)
    /\ Len(pantalla.results.warnings) = 2

(***************************************************************************)
(* C8.  In get_prediction_and_alerts: for one point the S/R window is 1,   *)
(* the single-point note is the warning emitted and support = resistance   *)
(* = the value; for n >= 2 points the window is max(2, min(w, n)) and the  *)
(* window-adjustment warning naming both values is emitted exactly when    *)
(* that window is less than w, that is exactly when w > n.                 *)
(***************************************************************************)
AvisosDeVentana(w) == {k \in 1..Len(w) : w[k].kind = "Nota: Se ajusto la ventana"}
AvisosDeUnPunto(w) == {k \in 1..Len(w) : w[k] = AvisoUnSoloPunto}

C8_VentanaDelMotor ==
    EnPrediccion
    => LET n == Len(call.data)
           w == call.window
           m == IF w < n THEN w ELSE n
           e == IF m > 2 THEN m ELSE 2
           r == call.results
       IN /\ n = 1 => /\ r.warnings[1] = AvisoUnSoloPunto
                      /\ AvisosDeVentana(r.warnings) = {}
                      /\ r.analysis_current.soporte = call.data[1]
                      /\ r.analysis_current.resistencia = call.data[1]
          /\ n >= 2 => /\ AvisosDeUnPunto(r.warnings) = {}
                       /\ r.analysis_current.soporte = MinimoSinNaN(call.data, n, e)
                       /\ r.analysis_current.resistencia = MaximoSinNaN(call.data, n, e)
                       /\ (AvisosDeVentana(r.warnings) # {}) <=> (e < w)
                       /\ (e < w) <=> (w > n)
                       /\ e < w => r.warnings[1] = [kind |-> "Nota: Se ajusto la ventana",
                                                    window |-> w, datos |-> n, ajustada |-> e]

\* a requested window of 1 on two or more points: the engine looks at two
C8_Witness ==
    /\ EnPrediccion
    /\ Len(call.data) >= 2
    /\ call.window = 1
    /\ SinNaN(call.data)
    /\ call.results.analysis_current.soporte < call.results.analysis_current.resistencia
    /\ call.results.warnings = <<>>

(***************************************************************************)
(* C9.  After an analysis, the support and resistance lines of the chart   *)
(* end on the latest support and resistance of the analysis result.        *)
(***************************************************************************)
C9_GraficoIgualAlMotor ==
    pantalla.salida = "analisis"
    => /\ Last(pantalla.lineas.soporte) = pantalla.results.analysis_current.soporte
       /\ Last(pantalla.lineas.resistencia) = pantalla.results.analysis_current.resistencia

(***************************************************************************)
(* C10.  For a non-empty series without NaN, latest support <= latest      *)
(* value <= latest resistance; so the latest value never reaches an alert  *)
(* tier that the latest resistance is below, and no result has all three   *)
(* alert messages set.                                                     *)
(***************************************************************************)
C10_ValorEntreSoporteYResistencia ==
    EnPrediccion
    => LET a == call.results.analysis_current
           r == call.results
       IN /\ SinNaN(call.data)
                => /\ a.soporte # NaN /\ a.resistencia # NaN
                   /\ a.soporte <= a.actual
                   /\ a.actual <= a.resistencia
                   /\ \A nivel \in {Nivel2, Nivel5, Nivel10} :
                         ~(a.actual >= nivel /\ a.resistencia < nivel)
          /\ ~(/\ r.alert_2_0_message # None
               /\ r.alert_5_0_message # None
               /\ r.alert_10_0_message # None)

\* two alert tiers at once on a series without NaN: the resistance reaches
\* 10.00 and the value is in the 5.00 tier
C10_Witness ==
    /\ EnPrediccion
    /\ SinNaN(call.data)
    /\ call.results.alert_10_0_message = "Advertencia Alta: resistencia >= 10.00"
    /\ call.results.alert_5_0_message = "ALERTA: valor actual >= 5.00"
    /\ call.results.analysis_current.soporte < call.results.analysis_current.actual

====
